---- MODULE Spec2Model ----
(***************************************************************************)
(* Gate alarm controller (controller/src/main.cpp): the state machine of   *)
(* loop() and of the handlers it calls.  One action is one iteration of    *)
(* loop(); the clock millis() is read once per iteration and has the       *)
(* 32-bit width of the AVR's unsigned long.  A 32-bit quantity, long or    *)
(* unsigned long, is held as the signed integer with the same bit pattern  *)
(* (two's complement): 2^32 - 1 is held as -1.  Conversions between long   *)
(* and unsigned long therefore leave the value as it is held, and the      *)
(* unsigned operations are spelled out below.                              *)
(***************************************************************************)
EXTENDS Integers, Sequences, FiniteSets, TLC

(* ---- program constants ------------------------------------------------ *)
MaxLong == 2147483647
MinLong == -MaxLong - 1
TwoPow16 == 65536
SECONDS_PER_MINUTE == 60
MILLIS_PER_SECOND == 1000
MILLIS_PER_MINUTE == MILLIS_PER_SECOND * SECONDS_PER_MINUTE
SUSPEND_OFF == 0
SUSPEND_INFINITE == -1
DIGIT_ENTRY_BASE == 10
HASH_KEY == -1
STAR_KEY == -2
INVALID_KEY == -9
DISPLAY_UPDATE_DELTA == 250
ALARM_BUZZER_ON_TIME == 1500
ALARM_BUZZER_OFF_TIME == 1000
ALARM_BUZZER_CYCLE_TIME == ALARM_BUZZER_ON_TIME + ALARM_BUZZER_OFF_TIME
ALARM_LED_ON_TIME == 250
ALARM_LED_OFF_TIME == 250
ALARM_LED_CYCLE_TIME == ALARM_LED_ON_TIME + ALARM_LED_OFF_TIME
HEARTBEAT_LED_ON_TIME == 100
HEARTBEAT_LED_OFF_TIME == 8000
HEARTBEAT_LED_CYCLE_TIME == HEARTBEAT_LED_ON_TIME + HEARTBEAT_LED_OFF_TIME
LCD_BACKLIGHT_TIMEOUT == 10000
SetupDelay == 2000
\* millis() of the static initialisation of heartbeatLEDPulseStartTime
HeartbeatStart0 == 0
LOW == 0
HIGH == 1

(* ---- bounds of the model ---------------------------------------------- *)
\* loop iterations explored from an initial state, under Spec
MaxIter == 5
\* loop iterations explored from an initial state, under SpecKeys
MaxKeyIter == 6
\* decimal digits of one numeric entry (at most 9: a long holds 999999999)
MaxDigits == 5
\* how long before the clock wraps the long-running initial state is taken
WrapLead == 30000
\* how long before that state its heartbeat reference was last rebased
IdleHeartbeatAge == 4000

\* loop iterations explored from an initial state, under SpecPulse
MaxPulseIter == 4
\* loop iterations explored from an initial state, under SpecBuzzer
MaxBuzzerIter == 5

\* loop iterations in which keys may be read, under SpecLive
MaxLiveIter == 3
\* loop iterations explored from an initial state, under SpecLong
MaxLongIter == 10

\* spacings in ms between two consecutive iterations of loop(), under Spec
Deltas == {1, 59999}
\* the digit keys pressed under Spec
Digits == {0, 1}
\* spacings under SpecPulse, around the edges of the buzzer and heartbeat pulses
PulseDeltas == {1, 99, 1000, 1499, 8000}
\* spacings under SpecBuzzer, within one cycle of the buzzer
BuzzerDeltas == {1, 1000, 1499}
\* spacings and digit keys under SpecKeys
KeyDeltas == {1}
KeyDigits == {0, 1, 9}
\* spacings under SpecLong, and the numbers of minutes typed there: the least
\* entry whose duration in ms exceeds 32 bits, and 2^27
LongDeltas == {1}
LongEntries == {71583, 134217728}
\* spacings under SpecLive: ten seconds and a minute while keys may be read,
\* a minute afterwards
LiveDeltas == {10000, 60000}
OnDeltas == {60000}
\* what keypad.getKey() returns when no key is pressed (NO_KEY)
NoKey == "none"

(* ---- machine arithmetic on 32-bit patterns --------------------------- *)
\* a + b modulo 2^32
WAdd(a, b) ==
    IF a >= 0 /\ b >= 0 /\ a > MaxLong - b THEN (a - MaxLong - 1) + (b - MaxLong - 1)
    ELSE IF a < 0 /\ b < 0 /\ a < MinLong - b THEN (a + MaxLong + 1) + (b + MaxLong + 1)
    ELSE a + b
\* -b modulo 2^32
WNeg(b) == IF b = MinLong THEN MinLong ELSE -b
\* a - b modulo 2^32: the unsigned long subtraction of the elapsed-time tests
USub(a, b) == WAdd(a, WNeg(b))
\* a * k modulo 2^32, for a multiplier k >= 0
RECURSIVE WMul(_, _)
WMul(a, k) ==
    IF k = 0 THEN 0
    ELSE IF k % 2 = 1 THEN WAdd(a, WMul(WAdd(a, a), k \div 2))
    ELSE WMul(WAdd(a, a), k \div 2)
\* unsigned comparisons of two patterns
ULt(a, b) == IF (a >= 0) = (b >= 0) THEN a < b ELSE a >= 0
UGt(a, b) == ULt(b, a)
UGe(a, b) == ~ULt(a, b)
\* unsigned division of a pattern by a constant 2 <= c < 2^16
UDiv(a, c) ==
    IF a >= 0 THEN a \div c
    ELSE LET half == ((a - MinLong) \div 2) + 1073741824
             q0 == (half \div c) * 2
             r == USub(a, WMul(q0, c))
         IN IF r >= c THEN q0 + 1 ELSE q0
\* conversion to unsigned int (16 bits on the AVR) of a value 0 .. MaxLong
ToUInt(x) == x % TwoPow16

VARIABLES
    now,                          \* millis() of the current loop iteration
    iter,                         \* iterations of loop() so far
    alarmSounding, gateOpen, suspendStartTime, totalSuspendTime,
    suspendTimeAccumulator, isUpdatingSuspendTime,
    lastDisplayUpdate,
    alarmBuzzerPulseStartTime, alarmLEDPulseStartTime,
    heartbeatLEDPulseStartTime, lcdBacklightTimeoutStartTime,
    oldLine1, oldLine2,           \* the statics of writeLinesOnLCD
    lcdLine1, lcdLine2,           \* what the LCD shows
    lcdBacklight,                 \* lcd.backlight() / lcd.noBacklight()
    buzzerPin, alarmLEDPin, heartbeatPin,
    alarmStart0,                  \* millis() of the last activateAlarm that started the buzzer
    alarmLEDStart0,               \* millis() of the last showAlarmLED
    lcdRedraws, lcdRearms,        \* lcd.clear() / switchLCDBacklightOn() calls of writeLinesOnLCD in this iteration
    lcdOffs,                      \* switchLCDBacklightOff() calls in this iteration
    displayRefreshed,             \* updateDisplay() ran in this iteration
    lastKey,                      \* the key read in this iteration
    gateSensed                    \* btnMagnet.isPressed() held in this iteration while the gate flag was clear

vars == <<now, iter, alarmSounding, gateOpen, suspendStartTime, totalSuspendTime,
          suspendTimeAccumulator, isUpdatingSuspendTime, lastDisplayUpdate,
          alarmBuzzerPulseStartTime, alarmLEDPulseStartTime,
          heartbeatLEDPulseStartTime, lcdBacklightTimeoutStartTime,
          oldLine1, oldLine2, lcdLine1, lcdLine2, lcdBacklight,
          buzzerPin, alarmLEDPin, heartbeatPin, alarmStart0, alarmLEDStart0,
          lcdRedraws, lcdRearms, lcdOffs, displayRefreshed, lastKey, gateSensed>>

\* the program state as one record, threaded through the handlers
State ==
    [now |-> now,
     alarmSounding |-> alarmSounding, gateOpen |-> gateOpen,
     suspendStartTime |-> suspendStartTime, totalSuspendTime |-> totalSuspendTime,
     suspendTimeAccumulator |-> suspendTimeAccumulator,
     isUpdatingSuspendTime |-> isUpdatingSuspendTime,
     lastDisplayUpdate |-> lastDisplayUpdate,
     alarmBuzzerPulseStartTime |-> alarmBuzzerPulseStartTime,
     alarmLEDPulseStartTime |-> alarmLEDPulseStartTime,
     heartbeatLEDPulseStartTime |-> heartbeatLEDPulseStartTime,
     lcdBacklightTimeoutStartTime |-> lcdBacklightTimeoutStartTime,
     oldLine1 |-> oldLine1, oldLine2 |-> oldLine2,
     lcdLine1 |-> lcdLine1, lcdLine2 |-> lcdLine2,
     lcdBacklight |-> lcdBacklight,
     buzzerPin |-> buzzerPin, alarmLEDPin |-> alarmLEDPin, heartbeatPin |-> heartbeatPin,
     alarmStart0 |-> alarmStart0, alarmLEDStart0 |-> alarmLEDStart0,
     lcdRedraws |-> lcdRedraws, lcdRearms |-> lcdRearms, lcdOffs |-> lcdOffs,
     displayRefreshed |-> displayRefreshed]

(* ---- keypad ------------------------------------------------------------ *)
keypadValue(key) ==
    CASE key = "0" -> 0 [] key = "1" -> 1 [] key = "2" -> 2 [] key = "3" -> 3
      [] key = "4" -> 4 [] key = "5" -> 5 [] key = "6" -> 6 [] key = "7" -> 7
      [] key = "8" -> 8 [] key = "9" -> 9
      [] key = "#" -> HASH_KEY
      [] key = "*" -> STAR_KEY
      [] OTHER -> INVALID_KEY

(* ---- decimal text, as String(n) builds it ------------------------------ *)
DigitChar(d) ==
    CASE d = 0 -> "0" [] d = 1 -> "1" [] d = 2 -> "2" [] d = 3 -> "3" [] d = 4 -> "4"
      [] d = 5 -> "5" [] d = 6 -> "6" [] d = 7 -> "7" [] d = 8 -> "8" [] d = 9 -> "9"

RECURSIVE DecString(_)
DecString(n) ==
    IF n < 0 THEN "-" \o DecString(-n)
    ELSE IF n < 10 THEN DigitChar(n)
    ELSE DecString(n \div 10) \o DigitChar(n % 10)

(* ---- backlight --------------------------------------------------------- *)
switchLCDBacklightOn(s) ==
    [s EXCEPT !.lcdBacklightTimeoutStartTime = s.now, !.lcdBacklight = TRUE]

switchLCDBacklightOff(s) ==
    [s EXCEPT !.lcdBacklight = FALSE, !.lcdBacklightTimeoutStartTime = 0,
              !.lcdOffs = s.lcdOffs + 1]

isSuspended(s) == s.totalSuspendTime # SUSPEND_OFF

isInfiniteSuspension(s) == s.totalSuspendTime = SUSPEND_INFINITE

(* ---- display ----------------------------------------------------------- *)
writeLinesOnLCD_Always(s, line1, line2) ==
    LET b == switchLCDBacklightOn(s)
    IN [b EXCEPT !.oldLine1 = line1, !.oldLine2 = line2,
                 !.lcdLine1 = line1, !.lcdLine2 = line2,
                 !.lcdRedraws = s.lcdRedraws + 1,
                 !.lcdRearms = s.lcdRearms + 1]

writeLinesOnLCD(s, line1, line2) ==
    IF (line1 # s.oldLine1) \/ (line2 # s.oldLine2)
    THEN LET b == switchLCDBacklightOn(s)
         IN [b EXCEPT !.oldLine1 = line1, !.oldLine2 = line2,
                      !.lcdLine1 = line1, !.lcdLine2 = line2,
                      !.lcdRedraws = s.lcdRedraws + 1,
                      !.lcdRearms = s.lcdRearms + 1]
    ELSE s

\* the second line of the countdown: minutes ":" seconds, seconds on two digits
RemainingText(s) ==
    LET millisRemaining == WAdd(USub(s.totalSuspendTime, s.now), s.suspendStartTime)
        minsRemaining == ToUInt(UDiv(millisRemaining, MILLIS_PER_MINUTE))
        secsRaw == ToUInt(UDiv(USub(millisRemaining, WMul(minsRemaining, MILLIS_PER_MINUTE)),
                               MILLIS_PER_SECOND))
        secsRemaining == secsRaw % SECONDS_PER_MINUTE
        secsStr == IF secsRemaining < 10 THEN "0" \o DecString(secsRemaining)
                   ELSE DecString(secsRemaining)
    IN DecString(minsRemaining) \o ":" \o secsStr

\* the two lines updateDisplay() hands to writeLinesOnLCD
DisplayText_GateFirst(s) ==
    IF s.isUpdatingSuspendTime THEN <<"Enter delay:", DecString(s.suspendTimeAccumulator)>>
    ELSE IF s.gateOpen THEN <<"** GATE **", "** OPEN **">>
    ELSE IF isSuspended(s) THEN
        IF isInfiniteSuspension(s) THEN <<"Alarm", "Suspended">>
        ELSE <<"Alarm paused for", RemainingText(s)>>
    ELSE <<"OK", "">>

DisplayText(s) ==
    IF s.isUpdatingSuspendTime THEN <<"Enter delay:", DecString(s.suspendTimeAccumulator)>>
    ELSE IF isSuspended(s) THEN
        IF isInfiniteSuspension(s) THEN <<"Alarm", "Suspended">>
        ELSE <<"Alarm paused for", RemainingText(s)>>
    ELSE IF s.gateOpen THEN <<"** GATE **", "** OPEN **">>
    ELSE <<"OK", "">>

updateDisplay(s) == LET text == DisplayText(s) IN writeLinesOnLCD(s, text[1], text[2])

(* ---- alarm state machine ----------------------------------------------- *)
hideAlarmLED(s) == [s EXCEPT !.alarmLEDPulseStartTime = 0, !.alarmLEDPin = LOW]

showAlarmLED(s) ==
    [s EXCEPT !.alarmLEDPin = HIGH, !.alarmLEDPulseStartTime = s.now,
              !.alarmLEDStart0 = s.now]

silenceAlarm_KeepPin(s) ==
    IF s.alarmSounding
    THEN [s EXCEPT !.alarmSounding = FALSE, !.alarmBuzzerPulseStartTime = 0]
    ELSE s

silenceAlarm(s) ==
    IF s.alarmSounding
    THEN [s EXCEPT !.alarmSounding = FALSE, !.alarmBuzzerPulseStartTime = 0, !.buzzerPin = LOW]
    ELSE s

activateAlarm(s) ==
    IF s.gateOpen /\ ~s.alarmSounding
    THEN [s EXCEPT !.buzzerPin = HIGH, !.alarmBuzzerPulseStartTime = s.now,
                   !.alarmStart0 = s.now, !.alarmSounding = TRUE]
    ELSE s

cancelSuspension(s) == [s EXCEPT !.totalSuspendTime = SUSPEND_OFF, !.suspendStartTime = 0]

openGate_NoGuard(s) ==
    LET g == showAlarmLED([s EXCEPT !.gateOpen = TRUE])
    IN IF ~isSuspended(g) THEN activateAlarm(g) ELSE g

openGate_IgnoreSuspension(s) ==
    IF ~s.gateOpen THEN activateAlarm(showAlarmLED([s EXCEPT !.gateOpen = TRUE])) ELSE s

openGate(s) ==
    IF ~s.gateOpen
    THEN LET g == showAlarmLED([s EXCEPT !.gateOpen = TRUE])
         IN IF ~isSuspended(g) THEN activateAlarm(g) ELSE g
    ELSE s

reset_NoSilence(s) == hideAlarmLED(cancelSuspension([s EXCEPT !.gateOpen = FALSE]))

reset(s) == hideAlarmLED(silenceAlarm(cancelSuspension([s EXCEPT !.gateOpen = FALSE])))

(* ---- keypad handlers --------------------------------------------------- *)
processKeypadDigit(s, digit) ==
    IF s.isUpdatingSuspendTime
    THEN [s EXCEPT !.suspendTimeAccumulator = s.suspendTimeAccumulator * DIGIT_ENTRY_BASE + digit]
    ELSE [s EXCEPT !.suspendTimeAccumulator = digit, !.isUpdatingSuspendTime = TRUE]

HashEntry_NoBacklight(s) ==
    IF s.isUpdatingSuspendTime
    THEN [s EXCEPT !.totalSuspendTime =
                       IF s.suspendTimeAccumulator # 0
                       THEN WMul(s.suspendTimeAccumulator, MILLIS_PER_MINUTE)
                       ELSE SUSPEND_OFF,
                   !.suspendTimeAccumulator = 0,
                   !.isUpdatingSuspendTime = FALSE]
    ELSE [s EXCEPT !.totalSuspendTime = SUSPEND_INFINITE]

\* the first half of processKeypadHash: the new totalSuspendTime
HashEntry(s) ==
    IF s.isUpdatingSuspendTime
    THEN [s EXCEPT !.totalSuspendTime =
                       IF s.suspendTimeAccumulator # 0
                       THEN WMul(s.suspendTimeAccumulator, MILLIS_PER_MINUTE)
                       ELSE SUSPEND_OFF,
                   !.suspendTimeAccumulator = 0,
                   !.isUpdatingSuspendTime = FALSE]
    ELSE switchLCDBacklightOn([s EXCEPT !.totalSuspendTime = SUSPEND_INFINITE])

HashResult_NoReactivate(s) ==
    IF isSuspended(s)
    THEN LET q == IF s.alarmSounding THEN silenceAlarm(s) ELSE s
         IN IF ~isInfiniteSuspension(q)
            THEN [q EXCEPT !.suspendStartTime = q.now]
            ELSE [q EXCEPT !.suspendStartTime = 0]
    ELSE s

\* the second half of processKeypadHash: the result
HashResult(s) ==
    IF isSuspended(s)
    THEN LET q == IF s.alarmSounding THEN silenceAlarm(s) ELSE s
         IN IF ~isInfiniteSuspension(q)
            THEN [q EXCEPT !.suspendStartTime = q.now]
            ELSE [q EXCEPT !.suspendStartTime = 0]
    ELSE IF s.gateOpen THEN activateAlarm(s) ELSE s

processKeypadHash(s) == HashResult(HashEntry(s))

processKeypadStar(s) == reset(s)

(* ---- the sections of loop() -------------------------------------------- *)
\* btnMagnet.isPressed() => openGate()
PollSensor(s, pressed) == IF pressed THEN openGate(s) ELSE s

\* keypad.getKey() and the dispatch on keypadValue
PollKeypad(s, key) ==
    IF key = NoKey THEN s
    ELSE LET keyVal == keypadValue(key)
         IN IF keyVal >= 0 /\ keyVal <= 9 THEN processKeypadDigit(s, keyVal)
            ELSE IF keyVal = HASH_KEY THEN processKeypadHash(s)
            ELSE IF keyVal = STAR_KEY THEN processKeypadStar(s)
            ELSE s

SuspensionTimeout_NoActivate(s) ==
    IF isSuspended(s) /\ ~isInfiniteSuspension(s)
       /\ UGt(USub(s.now, s.suspendStartTime), s.totalSuspendTime)
    THEN cancelSuspension(s)
    ELSE s

SuspensionTimeout_NoCancel(s) ==
    IF isSuspended(s) /\ ~isInfiniteSuspension(s)
       /\ UGt(USub(s.now, s.suspendStartTime), s.totalSuspendTime)
    THEN activateAlarm(s)
    ELSE s

SuspensionTimeout_NoWrap(s) ==
    IF isSuspended(s) /\ ~isInfiniteSuspension(s)
       /\ UGt(s.now, s.suspendStartTime)
       /\ UGt(USub(s.now, s.suspendStartTime), s.totalSuspendTime)
    THEN activateAlarm(cancelSuspension(s))
    ELSE s

SuspensionTimeout_Reset(s) ==
    IF isSuspended(s) /\ ~isInfiniteSuspension(s)
       /\ UGt(USub(s.now, s.suspendStartTime), s.totalSuspendTime)
    THEN activateAlarm(reset(s))
    ELSE s

\* "Check if any suspension has timed out"
SuspensionTimeout(s) ==
    IF isSuspended(s) /\ ~isInfiniteSuspension(s)
       /\ UGt(USub(s.now, s.suspendStartTime), s.totalSuspendTime)
    THEN activateAlarm(cancelSuspension(s))
    ELSE s

\* "Display is updated every DISPLAY_UPDATE_DELTA ms"
DisplayRefresh(s) ==
    IF UGt(USub(s.now, s.lastDisplayUpdate), DISPLAY_UPDATE_DELTA)
    THEN [updateDisplay(s) EXCEPT !.lastDisplayUpdate = s.now, !.displayRefreshed = TRUE]
    ELSE s

BuzzerPulse_AlwaysOn(s) ==
    IF s.alarmSounding
    THEN IF UGt(USub(s.now, s.alarmBuzzerPulseStartTime), ALARM_BUZZER_CYCLE_TIME)
         THEN [s EXCEPT !.alarmBuzzerPulseStartTime = s.now]
         ELSE [s EXCEPT !.buzzerPin = HIGH]
    ELSE s

BuzzerPulse(s) ==
    IF s.alarmSounding
    THEN IF UGt(USub(s.now, s.alarmBuzzerPulseStartTime), ALARM_BUZZER_CYCLE_TIME)
         THEN [s EXCEPT !.alarmBuzzerPulseStartTime = s.now]
         ELSE IF ULt(USub(s.now, s.alarmBuzzerPulseStartTime), ALARM_BUZZER_ON_TIME)
              THEN [s EXCEPT !.buzzerPin = HIGH]
              ELSE [s EXCEPT !.buzzerPin = LOW]
    ELSE s

AlarmLEDPulse_RebaseOff(s) ==
    IF s.gateOpen
    THEN IF UGt(USub(s.now, s.alarmLEDPulseStartTime), ALARM_LED_CYCLE_TIME)
         THEN [s EXCEPT !.alarmLEDPulseStartTime = s.now, !.alarmLEDPin = LOW]
         ELSE IF ULt(USub(s.now, s.alarmLEDPulseStartTime), ALARM_LED_ON_TIME)
              THEN [s EXCEPT !.alarmLEDPin = HIGH]
              ELSE [s EXCEPT !.alarmLEDPin = LOW]
    ELSE s

AlarmLEDPulse(s) ==
    IF s.gateOpen
    THEN IF UGt(USub(s.now, s.alarmLEDPulseStartTime), ALARM_LED_CYCLE_TIME)
         THEN [s EXCEPT !.alarmLEDPulseStartTime = s.now]
         ELSE IF ULt(USub(s.now, s.alarmLEDPulseStartTime), ALARM_LED_ON_TIME)
              THEN [s EXCEPT !.alarmLEDPin = HIGH]
              ELSE [s EXCEPT !.alarmLEDPin = LOW]
    ELSE s

HeartbeatPulse_NoForce(s) ==
    IF ~isSuspended(s)
    THEN IF UGt(USub(s.now, s.heartbeatLEDPulseStartTime), HEARTBEAT_LED_CYCLE_TIME)
         THEN [s EXCEPT !.heartbeatLEDPulseStartTime = s.now]
         ELSE IF ULt(USub(s.now, s.heartbeatLEDPulseStartTime), HEARTBEAT_LED_ON_TIME)
              THEN [s EXCEPT !.heartbeatPin = HIGH]
              ELSE [s EXCEPT !.heartbeatPin = LOW]
    ELSE s

HeartbeatPulse(s) ==
    IF ~isSuspended(s)
    THEN IF UGt(USub(s.now, s.heartbeatLEDPulseStartTime), HEARTBEAT_LED_CYCLE_TIME)
         THEN [s EXCEPT !.heartbeatLEDPulseStartTime = s.now]
         ELSE IF ULt(USub(s.now, s.heartbeatLEDPulseStartTime), HEARTBEAT_LED_ON_TIME)
              THEN [s EXCEPT !.heartbeatPin = HIGH]
              ELSE [s EXCEPT !.heartbeatPin = LOW]
    ELSE [s EXCEPT !.heartbeatPin = HIGH]

BacklightTimeout_NoEditGuard(s) ==
    IF /\ UGe(USub(s.now, s.lcdBacklightTimeoutStartTime), LCD_BACKLIGHT_TIMEOUT)
       /\ ~s.gateOpen
       /\ (~isSuspended(s) \/ isInfiniteSuspension(s))
    THEN switchLCDBacklightOff(s)
    ELSE s

BacklightTimeout(s) ==
    IF /\ UGe(USub(s.now, s.lcdBacklightTimeoutStartTime), LCD_BACKLIGHT_TIMEOUT)
       /\ ~s.gateOpen
       /\ (~isSuspended(s) \/ isInfiniteSuspension(s))
       /\ ~s.isUpdatingSuspendTime
    THEN switchLCDBacklightOff(s)
    ELSE s

\* one iteration of loop()
loop(s, pressed, key) ==
    BacklightTimeout(HeartbeatPulse(AlarmLEDPulse(BuzzerPulse(
        DisplayRefresh(SuspensionTimeout(PollKeypad(PollSensor(s, pressed), key)))))))

(* ---- initial states ---------------------------------------------------- *)
\* the quiet state shared by both initial states
InitCommon ==
    /\ iter = 0
    /\ alarmSounding = FALSE /\ gateOpen = FALSE
    /\ suspendStartTime = 0 /\ totalSuspendTime = SUSPEND_OFF
    /\ suspendTimeAccumulator = 0 /\ isUpdatingSuspendTime = FALSE
    /\ alarmBuzzerPulseStartTime = 0 /\ alarmLEDPulseStartTime = 0
    /\ buzzerPin = LOW /\ alarmLEDPin = LOW /\ heartbeatPin = LOW
    /\ alarmStart0 = 0 /\ alarmLEDStart0 = 0
    /\ lcdRedraws = 0 /\ lcdRearms = 0 /\ lcdOffs = 0 /\ displayRefreshed = FALSE
    /\ lastKey = NoKey /\ gateSensed = FALSE

\* setup() has returned: splash screen shown, backlight armed at clock 0,
\* delay(2000) over; the pins are low and the heartbeat reference is the
\* millis() of static initialisation
InitBoot ==
    /\ InitCommon
    /\ now = SetupDelay
    /\ lastDisplayUpdate = 0
    /\ heartbeatLEDPulseStartTime = HeartbeatStart0
    /\ lcdBacklightTimeoutStartTime = 0
    /\ lcdBacklight = TRUE
    /\ oldLine1 = "" /\ oldLine2 = ""
    /\ lcdLine1 = "** Gate Alarm **" /\ lcdLine2 = "**   Welcome  **"

\* the controller has idled since boot until WrapLead ms before millis() wraps:
\* the iteration that ended here refreshed the display ("OK"), found the
\* heartbeat in the off part of its cycle and the backlight timed out
InitNearWrap ==
    /\ InitCommon
    /\ now = WNeg(WrapLead)
    /\ lastDisplayUpdate = now
    /\ heartbeatLEDPulseStartTime = USub(now, IdleHeartbeatAge)
    /\ lcdBacklightTimeoutStartTime = 0
    /\ lcdBacklight = FALSE
    /\ oldLine1 = "OK" /\ oldLine2 = ""
    /\ lcdLine1 = "OK" /\ lcdLine2 = ""

Init == InitBoot \/ InitNearWrap

(* ---- actions: one iteration of loop() per input ------------------------ *)
\* the state at the start of an iteration that runs delta ms after the last
Enter(delta) ==
    [State EXCEPT !.now = WAdd(now, delta),
                  !.lcdRedraws = 0, !.lcdRearms = 0, !.lcdOffs = 0,
                  !.displayRefreshed = FALSE]

Commit(r, pressed, key) ==
    /\ now' = r.now
    /\ iter' = iter + 1
    /\ alarmSounding' = r.alarmSounding
    /\ gateOpen' = r.gateOpen
    /\ suspendStartTime' = r.suspendStartTime
    /\ totalSuspendTime' = r.totalSuspendTime
    /\ suspendTimeAccumulator' = r.suspendTimeAccumulator
    /\ isUpdatingSuspendTime' = r.isUpdatingSuspendTime
    /\ lastDisplayUpdate' = r.lastDisplayUpdate
    /\ alarmBuzzerPulseStartTime' = r.alarmBuzzerPulseStartTime
    /\ alarmLEDPulseStartTime' = r.alarmLEDPulseStartTime
    /\ heartbeatLEDPulseStartTime' = r.heartbeatLEDPulseStartTime
    /\ lcdBacklightTimeoutStartTime' = r.lcdBacklightTimeoutStartTime
    /\ oldLine1' = r.oldLine1 /\ oldLine2' = r.oldLine2
    /\ lcdLine1' = r.lcdLine1 /\ lcdLine2' = r.lcdLine2
    /\ lcdBacklight' = r.lcdBacklight
    /\ buzzerPin' = r.buzzerPin
    /\ alarmLEDPin' = r.alarmLEDPin
    /\ heartbeatPin' = r.heartbeatPin
    /\ alarmStart0' = r.alarmStart0
    /\ alarmLEDStart0' = r.alarmLEDStart0
    /\ lcdRedraws' = r.lcdRedraws
    /\ lcdRearms' = r.lcdRearms
    /\ lcdOffs' = r.lcdOffs
    /\ displayRefreshed' = r.displayRefreshed
    /\ lastKey' = key
    /\ gateSensed' = (pressed /\ ~gateOpen)

\* number of decimal digits the accumulator would have after one more digit
RECURSIVE DecLen(_)
DecLen(n) == IF n < 10 THEN 1 ELSE 1 + DecLen(n \div 10)

LoopIteration(delta, pressed, key, bound) ==
    /\ iter < bound
    /\ Commit(loop(Enter(delta), pressed, key), pressed, key)

\* an iteration in which keypad.getKey() returns no key
LoopNoKey(D, bound) ==
    \E delta \in D, pressed \in BOOLEAN : LoopIteration(delta, pressed, NoKey, bound)

\* an iteration in which a digit key is read
LoopDigit(D, digits, bound) ==
    \E delta \in D, pressed \in BOOLEAN, d \in digits :
        /\ isUpdatingSuspendTime =>
               DecLen(suspendTimeAccumulator * DIGIT_ENTRY_BASE + d) <= MaxDigits
        /\ LoopIteration(delta, pressed, DigitChar(d), bound)

\* an iteration in which the # key is read
LoopHash(D, bound) ==
    \E delta \in D, pressed \in BOOLEAN : LoopIteration(delta, pressed, "#", bound)

\* an iteration in which the * key is read
LoopStar(D, bound) ==
    \E delta \in D, pressed \in BOOLEAN : LoopIteration(delta, pressed, "*", bound)

\* the timing behaviour: coarse and fine spacings, one digit key
Next ==
    \/ LoopNoKey(Deltas, MaxIter)
    \/ LoopDigit(Deltas, Digits, MaxIter)
    \/ LoopHash(Deltas, MaxIter)
    \/ LoopStar(Deltas, MaxIter)

Spec == Init /\ [][Next]_vars

\* the keypad behaviour: back-to-back iterations, several digit keys
NextKeys ==
    \/ LoopNoKey(KeyDeltas, MaxKeyIter)
    \/ LoopDigit(KeyDeltas, KeyDigits, MaxKeyIter)
    \/ LoopHash(KeyDeltas, MaxKeyIter)
    \/ LoopStar(KeyDeltas, MaxKeyIter)

SpecKeys == Init /\ [][NextKeys]_vars

\* the pulse timers: spacings around the pulse edges, the # and * keys
NextPulse ==
    \/ LoopNoKey(PulseDeltas, MaxPulseIter)
    \/ LoopHash(PulseDeltas, MaxPulseIter)
    \/ LoopStar(PulseDeltas, MaxPulseIter)

SpecPulse == Init /\ [][NextPulse]_vars

\* the buzzer: spacings shorter than one cycle, the # and * keys
NextBuzzer ==
    \/ LoopNoKey(BuzzerDeltas, MaxBuzzerIter)
    \/ LoopHash(BuzzerDeltas, MaxBuzzerIter)
    \/ LoopStar(BuzzerDeltas, MaxBuzzerIter)

SpecBuzzer == Init /\ [][NextBuzzer]_vars

\* d is the digit that continues the typing of one of LongEntries
IsNextDigit(d) ==
    LET typed == IF isUpdatingSuspendTime THEN suspendTimeAccumulator ELSE 0
    IN \E n \in LongEntries, k \in 0..8 :
           LET p == n \div (10 ^ k)
           IN p > 0 /\ p \div DIGIT_ENTRY_BASE = typed /\ p % DIGIT_ENTRY_BASE = d

\* an iteration in which the next digit of a long entry is read
LoopEntryDigit(D, bound) ==
    \E delta \in D, pressed \in BOOLEAN, d \in 0..9 :
        /\ IsNextDigit(d)
        /\ LoopIteration(delta, pressed, DigitChar(d), bound)

\* the long entries: up to nine digits typed back to back, then # or *
NextLong ==
    \/ LoopEntryDigit(LongDeltas, MaxLongIter)
    \/ LoopHash(LongDeltas, MaxLongIter)
    \/ LoopStar(LongDeltas, MaxLongIter)

SpecLong == Init /\ [][NextLong]_vars

\* a Timed suspension is active whose duration the clock has not yet exceeded
TimedPending ==
    /\ isSuspended(State) /\ ~isInfiniteSuspension(State)
    /\ ~UGt(USub(now, suspendStartTime), totalSuspendTime)

\* loop() keeps running with no key read: once the iterations in which keys
\* may be read are over, the loop is followed for as long as a Timed
\* suspension is pending
LoopOn(D) ==
    \E delta \in D, pressed \in BOOLEAN :
        /\ iter >= MaxLiveIter
        /\ TimedPending
        /\ Commit(loop(Enter(delta), pressed, NoKey), pressed, NoKey)

\* loop() returns and is entered again: one more iteration is counted
LoopAgain ==
    /\ iter < MaxLiveIter \/ TimedPending
    /\ iter' = iter + 1

\* the loop that never stops: keys in the first iterations, then none
NextLive ==
    \/ LoopNoKey(LiveDeltas, MaxLiveIter)
    \/ LoopDigit(LiveDeltas, Digits, MaxLiveIter)
    \/ LoopHash(LiveDeltas, MaxLiveIter)
    \/ LoopStar(LiveDeltas, MaxLiveIter)
    \/ LoopOn(OnDeltas)

\* the Arduino core calls loop() again whenever it returns
SpecLive == Init /\ [][NextLive]_vars /\ WF_iter(LoopAgain)

(* ---- the suspension states of the data model ------------------------- *)
SuspendOff == totalSuspendTime = SUSPEND_OFF
SuspendInfinite == totalSuspendTime = SUSPEND_INFINITE
SuspendTimed == ~SuspendOff /\ ~SuspendInfinite

(* ---- C1 ---------------------------------------------------------------- *)
\* C1: reset(), applied to any reachable state, leaves gateOpen false, the
\* suspension Off and alarmSounding false, and a second reset() changes nothing
\* more; an iteration that read the * key ends in such a state.
C1_ResetClears ==
    /\ LET r == reset(State)
       IN /\ r.gateOpen = FALSE
          /\ r.totalSuspendTime = SUSPEND_OFF
          /\ r.alarmSounding = FALSE
          /\ reset(r) = r
    /\ lastKey = "*" => ~gateOpen /\ SuspendOff /\ ~alarmSounding

\* the * key was read while the display still shows the open gate of the
\* iteration before: reset() cleared an open gate and a sounding alarm
C1_Witness ==
    /\ lastKey = "*" /\ oldLine1 = "** GATE **"
    /\ ~gateOpen /\ ~alarmSounding /\ buzzerPin = LOW

(* ---- C2 ---------------------------------------------------------------- *)
\* C2: at the end of every loop iteration, a sounding alarm implies an open
\* gate and no suspension, timed or infinite.
C2_AlarmImpliesOpenUnsuspended ==
    alarmSounding => gateOpen /\ SuspendOff

\* the alarm sounds again after a timed suspension ended over an open gate
\* (run out, or cancelled by entering 0): the display still shows the countdown
\* of the last refresh
C2_Witness ==
    alarmSounding /\ gateOpen /\ SuspendOff /\ oldLine1 = "Alarm paused for"

(* ---- C3 ---------------------------------------------------------------- *)
\* C3: the gate flag is sticky: it becomes true only in an iteration whose
\* sensor poll called openGate() on a clear flag, and becomes false only in an
\* iteration that read the * key; no other key, no expiry, no pulse timer and
\* no display refresh changes it.
C3_GateSticky ==
    [][ /\ (~gateOpen /\ gateOpen') => gateSensed'
        /\ (gateOpen /\ ~gateOpen') => lastKey' = "*"
        /\ (~gateSensed' /\ lastKey' # "*") => gateOpen' = gateOpen ]_vars

\* the gate flag is still set after a # key entered an infinite suspension in
\* an iteration that also refreshed the display, with no sensor event
C3_Witness ==
    /\ gateOpen /\ ~gateSensed /\ lastKey = "#"
    /\ SuspendInfinite /\ displayRefreshed

(* ---- C4 ---------------------------------------------------------------- *)
\* a duration held in totalSuspendTime is exactly v minutes: read as unsigned
\* long it is v * 60000, with no reduction modulo 2^32
ExactMinutes(d, v) ==
    /\ UDiv(d, MILLIS_PER_MINUTE) = v
    /\ WMul(v, MILLIS_PER_MINUTE) = d

\* C4: an iteration that reads # while a nonzero value v is being entered ends
\* in a Timed suspension of exactly v minutes that starts at the time of the
\* press, with editing ended, the accumulator 0 and the alarm not sounding.
C4_TimedExactMinutes ==
    [][ (lastKey' = "#" /\ isUpdatingSuspendTime /\ suspendTimeAccumulator # 0) =>
            /\ ExactMinutes(totalSuspendTime', suspendTimeAccumulator)
            /\ SuspendTimed'
            /\ suspendStartTime' = now'
            /\ ~isUpdatingSuspendTime'
            /\ suspendTimeAccumulator' = 0
            /\ ~alarmSounding' ]_vars

(* ---- C5 ---------------------------------------------------------------- *)
\* C5: an iteration that reads # while the value being entered is zero ends
\* with the suspension Off, whatever it was before, with editing ended and the
\* accumulator 0, and with the alarm sounding if the gate is open.
C5_ZeroEntryCancels ==
    [][ (lastKey' = "#" /\ isUpdatingSuspendTime /\ suspendTimeAccumulator = 0) =>
            /\ SuspendOff'
            /\ ~isUpdatingSuspendTime'
            /\ suspendTimeAccumulator' = 0
            /\ (gateOpen' => alarmSounding') ]_vars

\* "0", "#" cancelled a Timed suspension over an open gate: the start time of
\* that suspension is still held, and the alarm sounds
C5_Witness ==
    /\ lastKey = "#" /\ SuspendOff /\ suspendStartTime # 0
    /\ gateOpen /\ alarmSounding /\ ~isUpdatingSuspendTime

(* ---- C6 ---------------------------------------------------------------- *)
\* C6: an iteration that reads # while no value is being entered ends in the
\* Infinite suspension with the alarm silent, the backlight on and the
\* backlight timeout counted from this iteration, also when the text on the
\* display does not change.
C6_HashAloneInfinite ==
    [][ (lastKey' = "#" /\ ~isUpdatingSuspendTime) =>
            /\ SuspendInfinite'
            /\ ~alarmSounding'
            /\ buzzerPin' = LOW
            /\ lcdBacklight'
            /\ lcdBacklightTimeoutStartTime' = now' ]_vars

\* # was read in the Infinite suspension: the display was refreshed with the
\* same text and not redrawn, and the backlight is on, counted from now
C6_Witness ==
    /\ lastKey = "#" /\ SuspendInfinite
    /\ displayRefreshed /\ lcdRedraws = 0
    /\ lcdBacklight /\ lcdBacklightTimeoutStartTime = now

(* ---- C7 ---------------------------------------------------------------- *)
\* C7: from Timed(d, t) with the gate open, an iteration that reads no key and
\* whose clock reading is at most t + d - 1 leaves the suspension as it is and
\* the alarm silent, and one whose reading is at least t + d + 1 ends with the
\* suspension Off and the alarm sounding; the suspension ends exactly when
\* now - t > d in unsigned 32-bit arithmetic, so at the end of an iteration a
\* Timed suspension has never run longer than d.
C7_TimedExpiry ==
    [][ /\ (SuspendTimed /\ gateOpen /\ lastKey' = NoKey) =>
               LET e == USub(now', suspendStartTime)
                   d == totalSuspendTime
               IN /\ ULt(e, d) => /\ ~alarmSounding'
                                  /\ totalSuspendTime' = d
                                  /\ suspendStartTime' = suspendStartTime
                  /\ UGt(e, d) => alarmSounding' /\ SuspendOff'
                  /\ SuspendOff' <=> UGt(e, d)
        /\ (SuspendTimed' /\ gateOpen') =>
               /\ ~alarmSounding'
               /\ ~UGt(USub(now', suspendStartTime'), totalSuspendTime') ]_vars

\* a one-minute suspension entered before the clock wrapped ran out after it:
\* the display was last refreshed at t + d - 1 ("0:00"), the iteration at
\* t + d left the alarm silent, and this one, at t + d + 1, sounds it
C7_Witness ==
    /\ alarmSounding /\ SuspendOff /\ gateOpen /\ lastKey = NoKey
    /\ oldLine1 = "Alarm paused for" /\ oldLine2 = "0:00"
    /\ USub(now, lastDisplayUpdate) = 2
    /\ now > 0 /\ now < MILLIS_PER_MINUTE

(* ---- C8 ---------------------------------------------------------------- *)
\* C8 as stated: while the alarm sounds, the buzzer output at the end of an
\* iteration is high exactly in the first 1500 ms of each 2500 ms cycle counted
\* from the activation of the alarm, a new cycle starting at each 2500 ms
\* boundary.
C8_BuzzerSquareWave ==
    alarmSounding =>
        (buzzerPin = HIGH <=>
            (USub(now, alarmStart0) % ALARM_BUZZER_CYCLE_TIME) < ALARM_BUZZER_ON_TIME)

\* C8 as amended: the iteration that activates the alarm makes its clock
\* reading the reference of the cycle and drives the buzzer high; while the
\* alarm keeps sounding, an iteration that finds at most 2500 ms elapsed since
\* the reference drives the buzzer high iff less than 1500 ms have elapsed, and
\* an iteration that finds more than 2500 ms elapsed starts the next cycle: it
\* makes its clock reading the new reference and leaves the output as it was.
C8_BuzzerAmended ==
    [][ /\ (~alarmSounding /\ alarmSounding') =>
               /\ alarmBuzzerPulseStartTime' = now'
               /\ buzzerPin' = HIGH
        /\ (alarmSounding /\ alarmSounding') =>
               LET e == USub(now', alarmBuzzerPulseStartTime)
               IN IF UGt(e, ALARM_BUZZER_CYCLE_TIME)
                  THEN /\ alarmBuzzerPulseStartTime' = now'
                       /\ buzzerPin' = buzzerPin
                  ELSE /\ alarmBuzzerPulseStartTime' = alarmBuzzerPulseStartTime
                       /\ buzzerPin' = HIGH <=> ULt(e, ALARM_BUZZER_ON_TIME) ]_vars

\* the alarm has sounded for more than one cycle: this iteration started the
\* next cycle and left the buzzer low
C8_Witness ==
    /\ alarmSounding /\ buzzerPin = LOW
    /\ alarmBuzzerPulseStartTime = now /\ alarmStart0 # now

C10_RedrawOnlyOnChange ==
    [][ displayRefreshed' =>
            LET text == DisplayText(State')
            IN IF text # <<oldLine1, oldLine2>>
               THEN /\ lcdRedraws' = 1 /\ lcdRearms' = 1
                    /\ <<lcdLine1', lcdLine2'>> = text
                    /\ <<oldLine1', oldLine2'>> = text
                    /\ lcdBacklight'
                    /\ lcdBacklightTimeoutStartTime' = now'
               ELSE /\ lcdRedraws' = 0 /\ lcdRearms' = 0
                    /\ UNCHANGED <<lcdLine1, lcdLine2, oldLine1, oldLine2>> ]_vars

\* the display was refreshed with the text it already showed: nothing was
\* redrawn, and the backlight, still on, keeps an earlier reference time
C10_Witness ==
    /\ displayRefreshed /\ lcdRedraws = 0 /\ lcdRearms = 0
    /\ lcdBacklight /\ lcdBacklightTimeoutStartTime # now
    /\ oldLine1 = "** GATE **"

(* ---- C11 --------------------------------------------------------------- *)
\* C11: an iteration that reads the * key, while a numeric entry is in
\* progress or not, ends with the editing flag false and the accumulator 0, so
\* that a # read in the next iteration enters the Infinite suspension instead
\* of terminating the earlier entry.
C11_StarClearsEditing ==
    [][ /\ lastKey' = "*" => (~isUpdatingSuspendTime' /\ suspendTimeAccumulator' = 0)
        /\ (lastKey = "*" /\ lastKey' = "#") => SuspendInfinite' ]_vars

(* ---- C12 --------------------------------------------------------------- *)
\* C12: an iteration switches the backlight off only if, at the point of the
\* check, at least 10000 ms have passed since the backlight reference, the gate
\* is closed, the suspension is Off or Infinite and no entry is in progress;
\* an iteration that ends with the gate open, a Timed suspension or an entry in
\* progress never switches the backlight off.
C12_BacklightAutoOff ==
    [][ /\ lcdOffs' > 0 =>
               /\ UGe(USub(now', lcdBacklightTimeoutStartTime), LCD_BACKLIGHT_TIMEOUT)
               /\ ~gateOpen'
               /\ (SuspendOff' \/ SuspendInfinite')
               /\ ~isUpdatingSuspendTime'
               /\ ~lcdBacklight'
        /\ (gateOpen' \/ SuspendTimed' \/ isUpdatingSuspendTime') =>
               /\ lcdOffs' = 0
               /\ lcdBacklight => lcdBacklight' ]_vars

\* the backlight, armed when # entered the Infinite suspension, was switched
\* off by a later iteration that read no key and refreshed the display
\* without redrawing it; the gate is closed and no entry is in progress
C12_Witness ==
    /\ lcdOffs = 1 /\ ~lcdBacklight /\ lcdBacklightTimeoutStartTime = 0
    /\ SuspendInfinite /\ ~gateOpen /\ ~isUpdatingSuspendTime
    /\ lastKey = NoKey /\ displayRefreshed /\ lcdRedraws = 0

(* ---- C13 --------------------------------------------------------------- *)
\* C13: at the end of every iteration that read a key, a Timed suspension
\* carries the clock reading of the iteration that entered it, and the Off and
\* Infinite states carry no start timestamp (suspendStartTime = 0), also after
\* "0", "#" cancelled a Timed suspension.
C13_StartTimestamp ==
    [][ lastKey' # NoKey =>
            /\ (SuspendOff' \/ SuspendInfinite') => suspendStartTime' = 0
            /\ SuspendTimed' =>
                   suspendStartTime' =
                       IF lastKey' = "#" /\ isUpdatingSuspendTime
                       THEN now' ELSE suspendStartTime ]_vars

(* ---- C14 --------------------------------------------------------------- *)
\* C14: an iteration that reads # while a nonzero value is being entered ends
\* in a Timed suspension (suspended, neither Off nor Infinite), whatever the
\* value, also when the value times 60000 wraps modulo 2^32.
C14_NonzeroEntryTimed ==
    [][ (lastKey' = "#" /\ isUpdatingSuspendTime /\ suspendTimeAccumulator # 0) =>
            /\ isSuspended(State')
            /\ SuspendTimed' ]_vars

(* ---- C15 --------------------------------------------------------------- *)
\* C15: when the gate is already open, openGate() changes no state at all, and
\* an iteration of loop() in which the sensor reports the gate open ends in the
\* same state as the same iteration without the sensor event: a repeated sensor
\* event neither re-activates a suspended alarm nor restarts a pulse cycle.
C15_OpenGateIdempotent ==
    gateOpen =>
        /\ openGate(State) = State
        /\ \A delta \in PulseDeltas, key \in {NoKey, "1", "#", "*"} :
               loop(Enter(delta), TRUE, key) = loop(Enter(delta), FALSE, key)

\* the gate has been open for a while under an Infinite suspension: the alarm
\* is silent and the alarm LED is in the off part of a cycle that began in an
\* earlier iteration, so a second openGate() that acted would show
C15_Witness ==
    /\ gateOpen /\ ~gateSensed /\ SuspendInfinite /\ ~alarmSounding
    /\ alarmLEDPin = LOW /\ alarmLEDPulseStartTime # now

(* ---- C16 --------------------------------------------------------------- *)
\* C16: at the end of every loop iteration the buzzer output is low whenever
\* alarmSounding is false, in particular whenever the gate is closed or a
\* suspension, timed or infinite, is active.
C16_SilentMeansBuzzerLow ==
    /\ ~alarmSounding => buzzerPin = LOW
    /\ (~gateOpen \/ ~SuspendOff) => buzzerPin = LOW

\* a # key silenced a sounding alarm one iteration after the gate opened: the
\* display still shows the open gate, the suspension is Infinite and the
\* buzzer, driven high when the alarm was activated, is low
C16_Witness ==
    /\ lastKey = "#" /\ gateOpen /\ SuspendInfinite
    /\ ~alarmSounding /\ buzzerPin = LOW
    /\ oldLine1 = "** GATE **" /\ alarmStart0 # 0 /\ USub(now, alarmStart0) = 1

(* ---- C17 --------------------------------------------------------------- *)
\* C17: if a Timed suspension is active and no key is read from then on while
\* loop() keeps running and the clock advances, the suspension eventually
\* becomes Off; the iteration in which it runs out ends with the alarm
\* sounding if the gate is open and silent if the gate is closed.
C17_TimedExpires ==
    /\ SuspendTimed ~> (SuspendOff \/ lastKey # NoKey)
    /\ [][ (SuspendTimed /\ lastKey' = NoKey /\ SuspendOff') =>
               (alarmSounding' <=> gateOpen') ]_vars

\* a Timed suspension ran out over an open gate in an iteration after the last
\* one that could read a key: the alarm was activated by that iteration
C17_Witness ==
    /\ iter > MaxLiveIter /\ lastKey = NoKey
    /\ SuspendOff /\ gateOpen /\ ~gateSensed
    /\ alarmSounding /\ alarmStart0 = now

(* ---- C18 --------------------------------------------------------------- *)
\* unsigned remainder of a 32-bit pattern by a cycle length
UMod(a, c) == USub(a, WMul(UDiv(a, c), c))

\* the ideal square wave on the reference start0: on in the first `on' ms of
\* every cycle counted from start0
IdealWave(start0, cycle, on) == UMod(USub(now, start0), cycle) < on

\* C18 as stated: at the end of every iteration in which a pulse timer is
\* active, its output equals the ideal square wave on the reference set when
\* the timer was activated: the buzzer while the alarm sounds, the alarm LED
\* while the gate is open, the heartbeat LED while nothing is suspended.
C18_IdealSquareWave ==
    /\ alarmSounding =>
           (buzzerPin = HIGH <=>
               IdealWave(alarmStart0, ALARM_BUZZER_CYCLE_TIME, ALARM_BUZZER_ON_TIME))
    /\ gateOpen =>
           (alarmLEDPin = HIGH <=>
               IdealWave(alarmLEDStart0, ALARM_LED_CYCLE_TIME, ALARM_LED_ON_TIME))
    /\ SuspendOff =>
           (heartbeatPin = HIGH <=>
               IdealWave(HeartbeatStart0, HEARTBEAT_LED_CYCLE_TIME, HEARTBEAT_LED_ON_TIME))

\* one iteration of a pulse timer that is active at its end: the time e since
\* the reference then held is at most one cycle; a timer activated in this
\* iteration has its clock reading as reference and its output on; if e is not
\* 0 the reference is the one held before and the output is the ideal wave on
\* it, except that it is off when e is exactly one cycle; an iteration that
\* found more than one cycle elapsed made its clock reading the reference and
\* left the output as it was
PulseStep(wasActive, start, startAfter, pin, pinAfter, nowAfter, cycle, on) ==
    LET e == USub(nowAfter, startAfter)
    IN /\ UGe(cycle, e)
       /\ ~wasActive => (e = 0 /\ pinAfter = HIGH)
       /\ e # 0 => /\ startAfter = start
                   /\ pinAfter = HIGH <=> (UMod(e, cycle) < on /\ e # cycle)
       /\ (wasActive /\ UGt(USub(nowAfter, start), cycle)) =>
              (e = 0 /\ pinAfter = pin)

\* C18 as amended: each pulse timer follows the ideal square wave on its
\* current reference, not on the reference of its activation: see PulseStep.
C18_PulseRule ==
    [][ /\ alarmSounding' =>
               PulseStep(alarmSounding, alarmBuzzerPulseStartTime,
                         alarmBuzzerPulseStartTime', buzzerPin, buzzerPin', now',
                         ALARM_BUZZER_CYCLE_TIME, ALARM_BUZZER_ON_TIME)
        /\ gateOpen' =>
               PulseStep(gateOpen, alarmLEDPulseStartTime,
                         alarmLEDPulseStartTime', alarmLEDPin, alarmLEDPin', now',
                         ALARM_LED_CYCLE_TIME, ALARM_LED_ON_TIME)
        /\ SuspendOff' =>
               PulseStep(TRUE, heartbeatLEDPulseStartTime,
                         heartbeatLEDPulseStartTime', heartbeatPin, heartbeatPin', now',
                         HEARTBEAT_LED_CYCLE_TIME, HEARTBEAT_LED_ON_TIME) ]_vars

\* the gate opened 1499 ms ago: the ideal wave on that reference is off, but
\* this iteration found more than 500 ms elapsed, rebased the reference of the
\* alarm LED to its clock reading and left the LED on
C18_Witness ==
    /\ gateOpen /\ alarmLEDPin = HIGH
    /\ alarmLEDPulseStartTime = now
    /\ USub(now, alarmLEDStart0) = 1499

(* ---- C19 --------------------------------------------------------------- *)
\* minutes ":" seconds of a time in ms, the seconds on two digits
MinSec(ms) ==
    LET secs == (ms % MILLIS_PER_MINUTE) \div MILLIS_PER_SECOND
    IN DecString(ms \div MILLIS_PER_MINUTE) \o ":" \o
       (IF secs < 10 THEN "0" ELSE "") \o DecString(secs)

C20_OpenUnsuspendedImpliesAlarm ==
    (gateOpen /\ SuspendOff) => alarmSounding

\* the gate was opened during a Timed suspension, which ran out in this
\* iteration: no key was read, the sensor did not open the gate now, and the
\* alarm was activated by this iteration
C20_Witness ==
    /\ gateOpen /\ SuspendOff /\ alarmSounding
    /\ lastKey = NoKey /\ ~gateSensed
    /\ alarmStart0 = now /\ alarmLEDStart0 # now /\ buzzerPin = HIGH

====
